---------------------------- MODULE Spec2Model ----------------------------
(***************************************************************************)
(* csvalid: a CSV linter.  src/checks.js holds the rule engine (checkCell) *)
(* and src/index.js the validation driver (the parser's 'readable'         *)
(* handler, with the row counter and the latched column count).            *)
(*                                                                         *)
(* src/index.js holds two scripts.  The first (lines 1-99) is the one with *)
(* the blank-line check and the latched column count, and is the driver    *)
(* modelled here; the second (lines 101-179) is a variant without them,    *)
(* whose only extra is a listener for the parser's 'error' event.          *)
(*                                                                         *)
(* Strings are sequences of UTF-16 code units (integers), JavaScript       *)
(* values are tagged records, and of the output stream the model keeps the *)
(* lines that the latest event's handler wrote to it.                      *)
(***************************************************************************)
EXTENDS Integers, Sequences, FiniteSets

\* ------------------------------------------------------------------ bounds
\* Longest cell, in characters, handed to the rule engine on its own.
MaxLen == 2
\* Records the parser delivers in one run.
MaxRecords == 3
\* Widest record, and the largest schema.columns.
MaxFields == 2
\* Largest schema.skipRows.
MaxSkip == 2

\* ------------------------------------------------------- JavaScript values
Undefined == [t |-> "undefined", s |-> <<>>, n |-> 0, e |-> 0]
NaN == [t |-> "NaN", s |-> <<>>, n |-> 0, e |-> 0]
Str(x) == [t |-> "string", s |-> x, n |-> 0, e |-> 0]
\* The number m / 10^f.
Num(m, f) == [t |-> "number", s |-> <<>>, n |-> m, e |-> f]

\* Character codes used below.
Ch == [tab |-> 9, sp |-> 32, plus |-> 43, minus |-> 45, dot |-> 46, zero |-> 48,
       seven |-> 55, nine |-> 57, X |-> 88, a |-> 97, x |-> 120, eacute |-> 233]

\* "undefined", what ToString gives for the undefined value.
UndefinedText == <<117, 110, 100, 101, 102, 105, 110, 101, 100>>

JsToString(v) == IF v.t = "string" THEN v.s ELSE UndefinedText

\* WhiteSpace and LineTerminator code units (String.prototype.trim,
\* parseInt and parseFloat all strip these).
IsWhiteSpace(c) == c \in {9, 10, 11, 12, 13, 32, 160, 5760, 8232, 8233, 8239, 8287, 12288, 65279}
                      \/ (c >= 8192 /\ c <= 8202)

RECURSIVE TrimStart(_)
TrimStart(s) ==
  IF s # <<>> /\ IsWhiteSpace(Head(s)) THEN TrimStart(Tail(s)) ELSE s

RECURSIVE TrimEnd(_)
TrimEnd(s) ==
  IF s # <<>> /\ IsWhiteSpace(s[Len(s)]) THEN TrimEnd(SubSeq(s, 1, Len(s) - 1)) ELSE s

\* String.prototype.trim
Trim(s) == TrimEnd(TrimStart(s))

RECURSIVE Pow10(_)
Pow10(k) == IF k = 0 THEN 1 ELSE 10 * Pow10(k - 1)

\* Buffer.from(string): the UTF-8 bytes of the string (code units below
\* 0x800 here; a lone code unit above that takes three bytes).
Utf8(c) ==
  IF c < 128 THEN <<c>>
  ELSE IF c < 2048 THEN <<192 + (c \div 64), 128 + (c % 64)>>
  ELSE <<224 + (c \div 4096), 128 + ((c \div 64) % 64), 128 + (c % 64)>>

RECURSIVE BufferFrom(_)
BufferFrom(s) == IF s = <<>> THEN <<>> ELSE Utf8(Head(s)) \o BufferFrom(Tail(s))

\* The value of c as a digit of the given radix, or -1.
DigitVal(c, radix) ==
  LET v == IF c >= Ch.zero /\ c <= Ch.nine THEN c - Ch.zero
           ELSE IF c >= 97 /\ c <= 122 THEN c - 97 + 10
           ELSE IF c >= 65 /\ c <= 90 THEN c - 65 + 10
           ELSE -1
  IN IF v >= 0 /\ v < radix THEN v ELSE -1

\* Length of the longest prefix of s made of digits of the radix.
RECURSIVE DigitPrefix(_, _)
DigitPrefix(s, radix) ==
  IF s # <<>> /\ DigitVal(Head(s), radix) >= 0
    THEN 1 + DigitPrefix(Tail(s), radix)
    ELSE 0

\* The value of a string of digits of the radix, most significant first.
RECURSIVE DigitsValue(_, _, _)
DigitsValue(s, radix, acc) ==
  IF s = <<>> THEN acc
  ELSE DigitsValue(Tail(s), radix, acc * radix + DigitVal(Head(s), radix))

\* parseInt as it would be if leading white space were not skipped.
ParseIntUntrimmed(v) ==
  LET s0 == JsToString(v)
      signed == s0 # <<>> /\ Head(s0) \in {Ch.plus, Ch.minus}
      sign == IF s0 # <<>> /\ Head(s0) = Ch.minus THEN -1 ELSE 1
      s1 == IF signed THEN Tail(s0) ELSE s0
      hex == Len(s1) >= 2 /\ s1[1] = Ch.zero /\ s1[2] \in {Ch.x, Ch.X}
      radix == IF hex THEN 16 ELSE 10
      s2 == IF hex THEN SubSeq(s1, 3, Len(s1)) ELSE s1
      k == DigitPrefix(s2, radix)
  IN IF k = 0 THEN NaN
     ELSE Num(sign * DigitsValue(SubSeq(s2, 1, k), radix, 0), 0)

\* parseInt(v) with no radix argument: ToString, strip leading white space,
\* an optional sign, an optional 0x/0X prefix, then the longest prefix of
\* digits; NaN when that prefix is empty.
ParseInt(v) ==
  LET s0 == TrimStart(JsToString(v))
      signed == s0 # <<>> /\ Head(s0) \in {Ch.plus, Ch.minus}
      sign == IF s0 # <<>> /\ Head(s0) = Ch.minus THEN -1 ELSE 1
      s1 == IF signed THEN Tail(s0) ELSE s0
      hex == Len(s1) >= 2 /\ s1[1] = Ch.zero /\ s1[2] \in {Ch.x, Ch.X}
      radix == IF hex THEN 16 ELSE 10
      s2 == IF hex THEN SubSeq(s1, 3, Len(s1)) ELSE s1
      k == DigitPrefix(s2, radix)
  IN IF k = 0 THEN NaN
     ELSE Num(sign * DigitsValue(SubSeq(s2, 1, k), radix, 0), 0)

\* parseFloat(v): ToString, strip leading white space, then the longest
\* prefix that is a decimal literal: an optional sign, digits with an
\* optional fraction, or a dot followed by digits.  (No cell of this model
\* holds an exponent or the word Infinity.)
ParseFloat(v) ==
  LET s0 == TrimStart(JsToString(v))
      signed == s0 # <<>> /\ Head(s0) \in {Ch.plus, Ch.minus}
      sign == IF s0 # <<>> /\ Head(s0) = Ch.minus THEN -1 ELSE 1
      s1 == IF signed THEN Tail(s0) ELSE s0
      ki == DigitPrefix(s1, 10)
      rest == SubSeq(s1, ki + 1, Len(s1))
      dotted == rest # <<>> /\ Head(rest) = Ch.dot
      kf == IF dotted THEN DigitPrefix(Tail(rest), 10) ELSE 0
      digits == SubSeq(s1, 1, ki) \o (IF dotted THEN SubSeq(rest, 2, kf + 1) ELSE <<>>)
  IN IF ki = 0 /\ kf = 0 THEN NaN
     ELSE Num(sign * DigitsValue(digits, 10, 0), kf)

\* isFinite(x) for the values ParseInt and ParseFloat give.
IsFinite(x) == x.t = "number"

\* x >= y and x <= y on numbers m / 10^f; false when either is NaN.
NumGe(x, y) ==
  x.t = "number" /\ y.t = "number" /\ x.n * Pow10(y.e) >= y.n * Pow10(x.e)

NumLe(x, y) ==
  x.t = "number" /\ y.t = "number" /\ x.n * Pow10(y.e) <= y.n * Pow10(x.e)

\* a < b on strings: code unit by code unit, a proper prefix sorting first.
RECURSIVE StrLess(_, _)
StrLess(a, b) ==
  IF b = <<>> THEN FALSE
  ELSE IF a = <<>> THEN TRUE
  ELSE IF Head(a) # Head(b) THEN Head(a) < Head(b)
  ELSE StrLess(Tail(a), Tail(b))

\* cell >= bound and cell <= bound where bound is a string: a string
\* comparison when cell is a string too; otherwise both sides are converted
\* to numbers, undefined becomes NaN and the comparison is false.
StrGe(cell, bound) == cell.t = "string" /\ ~StrLess(cell.s, bound.s)

StrLe(cell, bound) == cell.t = "string" /\ ~StrLess(bound.s, cell.s)

\* colDef.regex when it holds a pattern of the form [^]literal[$].
Regex(anchorStart, lit, anchorEnd) ==
  [present |-> TRUE, as |-> anchorStart, lit |-> lit, ae |-> anchorEnd]
\* colDef.regex absent.
NoRegex == [present |-> FALSE, as |-> FALSE, lit |-> <<>>, ae |-> FALSE]

\* new RegExp(re).test(v): an unanchored search of ToString(v).
RegExpTest(re, v) ==
  LET s == JsToString(v)
      n == Len(re.lit)
  IN \E i \in 1..(Len(s) + 1) :
       /\ i + n - 1 <= Len(s)
       /\ SubSeq(s, i, i + n - 1) = re.lit
       /\ re.as => i = 1
       /\ re.ae => i + n - 1 = Len(s)

\* ------------------------------------------------------------- rule engine
\* The messages checkCell pushes.
Msg == [notEmpty |-> "isn't empty when it should be",
        empty |-> "is empty when it shouldn't be",
        ascii |-> "contains characters other than 7-bit ASCII printing characters",
        trim |-> "contains leading or trailing whitespace",
        regex |-> "does not match regular expression",
        int |-> "is not a finite integer",
        float |-> "is not a finite floating-point number",
        minNum |-> "is below minimum numeric value or is not a number",
        minStr |-> "sorts before minimum string value",
        maxNum |-> "is above maximum numeric value or is not a number",
        maxStr |-> "sorts after maximum string value"]

\* A column definition with no rule set.
NoRules ==
  [isEmpty |-> FALSE, noEmpty |-> FALSE, isAscii |-> FALSE, isTrim |-> FALSE,
   regex |-> NoRegex, isInt |-> FALSE, isFloat |-> FALSE,
   minVal |-> Undefined, maxVal |-> Undefined]

\* The state of one checkCell call: the msgs array, and whether the call
\* has thrown (a TypeError ends the call; nothing after it runs).
Started == [threw |-> FALSE, msgs |-> <<>>]

Push(st, cond, msg) ==
  IF cond THEN [st EXCEPT !.msgs = Append(@, msg)] ELSE st

Throw(st) == [st EXCEPT !.threw = TRUE]

\* Column must/mustn't be empty.
CheckEmptiness(st, cell, colDef) ==
  IF st.threw THEN st
  ELSE IF colDef.isEmpty THEN Push(st, cell # Str(<<>>), Msg.notEmpty)
  ELSE IF colDef.noEmpty THEN Push(st, cell = Str(<<>>), Msg.empty)
  ELSE st

\* Column must consist only of 7-bit ASCII printing characters, 0x20 to
\* 0x7E.  Buffer.from throws a TypeError when the cell is not a string.
CheckAscii(st, cell, colDef) ==
  IF st.threw \/ ~colDef.isAscii THEN st
  ELSE IF cell.t # "string" THEN Throw(st)
  ELSE LET buf == BufferFrom(cell.s)
       IN Push(st, \E i \in 1..Len(buf) : buf[i] < 32 \/ buf[i] > 126, Msg.ascii)

\* Column must not contain leading or trailing whitespace.  cell.trim()
\* throws a TypeError when the cell is undefined.
CheckTrim(st, cell, colDef) ==
  IF st.threw \/ ~colDef.isTrim THEN st
  ELSE IF cell.t # "string" THEN Throw(st)
  ELSE Push(st, cell.s # Trim(cell.s), Msg.trim)

\* Column must match a regex.
CheckRegex(st, cell, colDef) ==
  IF st.threw \/ ~colDef.regex.present THEN st
  ELSE Push(st, ~RegExpTest(colDef.regex, cell), Msg.regex)

\* The integer check as it would be if it ran only on cells that no earlier
\* check has faulted.
CheckIntUnlessFaulted(st, cell, colDef) ==
  IF st.threw \/ ~colDef.isInt \/ st.msgs # <<>> THEN st
  ELSE Push(st, ~IsFinite(ParseInt(cell)), Msg.int)

\* Column must parse as a finite integer.
CheckInt(st, cell, colDef) ==
  IF st.threw \/ ~colDef.isInt THEN st
  ELSE Push(st, ~IsFinite(ParseInt(cell)), Msg.int)

\* Column must parse as a finite floating-point number.
CheckFloat(st, cell, colDef) ==
  IF st.threw \/ ~colDef.isFloat THEN st
  ELSE Push(st, ~IsFinite(ParseFloat(cell)), Msg.float)

\* Column must meet a minimum (numeric or string) value.
CheckMin(st, cell, colDef) ==
  IF st.threw THEN st
  ELSE IF colDef.minVal.t = "number"
    THEN Push(st, ~NumGe(ParseFloat(cell), colDef.minVal), Msg.minNum)
  ELSE IF colDef.minVal.t = "string"
    THEN Push(st, ~StrGe(cell, colDef.minVal), Msg.minStr)
  ELSE st

\* Column must meet a maximum (numeric or string) value.
CheckMax(st, cell, colDef) ==
  IF st.threw THEN st
  ELSE IF colDef.maxVal.t = "number"
    THEN Push(st, ~NumLe(ParseFloat(cell), colDef.maxVal), Msg.maxNum)
  ELSE IF colDef.maxVal.t = "string"
    THEN Push(st, ~StrLe(cell, colDef.maxVal), Msg.maxStr)
  ELSE st

\* checkCell(cell, colDef): the eight checks in the order of the code, each
\* on the msgs the ones before it left.
checkCell(cell, colDef) ==
  LET s1 == CheckEmptiness(Started, cell, colDef)
      s2 == CheckAscii(s1, cell, colDef)
      s3 == CheckTrim(s2, cell, colDef)
      s4 == CheckRegex(s3, cell, colDef)
      s5 == CheckInt(s4, cell, colDef)
      s6 == CheckFloat(s5, cell, colDef)
      s7 == CheckMin(s6, cell, colDef)
  IN CheckMax(s7, cell, colDef)

\* ------------------------------------------------------- validation driver
VARIABLES
  schema,      \* the parsed schema file: columns, skipRows, columnDefs
  colsShould,  \* the expected column count; 0 while it is not set
  row,         \* the row counter
  pc,          \* "reading", "ended" (the parser's 'end'), or "crashed"
  delivered,   \* how many records parser.read() has returned so far
  rec,         \* the record the latest event delivered, <<>> if none
  written,     \* the lines the latest event's handler wrote to outstream
  calls,       \* the checkCell calls that handler made, in order
  evCell,      \* rule engine on its own: the cell,
  evDef,       \*   the column definition,
  evRes,       \*   and what checkCell returned for them
  evPc         \* "off", "input" or "returned"

vars == <<schema, colsShould, row, pc, delivered, rec, written, calls,
          evCell, evDef, evRes, evPc>>

driverVars == <<schema, colsShould, row, pc, delivered, rec, written, calls>>

engineVars == <<evCell, evDef, evRes, evPc>>

\* A key of a record or of columnDefs: an array index or a property name.
Index(i) == [kind |-> "index", i |-> i, name |-> ""]
Name(s) == [kind |-> "name", i |-> 0, name |-> s]
NoKey == [kind |-> "none", i |-> 0, name |-> ""]

\* An array or an object with its keys in order: a sequence of entries.
Entry(k, v) == [key |-> k, val |-> v]

\* The array holding the values of s.
ArrayOf(s) == [i \in 1..Len(s) |-> Entry(Index(i - 1), s[i])]

\* The object holding s[i] under names[i].
ObjectOf(names, s) == [i \in 1..Len(s) |-> Entry(Name(names[i]), s[i])]

\* obj[key]: the value under the key, undefined when there is none.
Get(obj, key) ==
  IF \E i \in 1..Len(obj) : obj[i].key = key
    THEN obj[CHOOSE i \in 1..Len(obj) : obj[i].key = key].val
    ELSE Undefined

\* The lines written to outstream.
BlankLine(r) ==
  [row |-> r, col |-> NoKey, msg |-> "is a blank line", expected |-> 0, found |-> 0]

CountLine(r, should, this) ==
  [row |-> r, col |-> NoKey, msg |-> "inconsistent column count",
   expected |-> should, found |-> this]

\* The column as a line prints it: idx + 1 in positional mode, else the key.
ColLabel(key) == IF key.kind = "index" THEN Index(key.i + 1) ELSE key

CellLine(r, key, msgmid) ==
  [row |-> r, col |-> ColLabel(key), msg |-> msgmid, expected |-> 0, found |-> 0]

\* const namedColumnMode = !Array.isArray(schema.columnDefs)
namedColumnMode(sch) == ~sch.isArray

\* let colsShould = schema.columns (0 stands for a schema without columns)
InitialColsShould(sch) == sch.columns

\* The row counter as it would be if it started at 0 in both modes.
InitialRowZero(sch) == 0

\* let row = namedColumnMode ? 1 : 0
InitialRow(sch) == IF namedColumnMode(sch) THEN 1 ELSE 0

\* The skip test as it would be with < for <=.
IsSkippedStrict(r, sch) == r < sch.skipRows

\* if (row <= schema.skipRows) continue
IsSkipped(r, sch) == r <= sch.skipRows

\* The latch as it would be without its test: every row sets the count.
LatchEveryRow(should, colsThis) == colsThis

\* if (!colsShould) { colsShould = colsThis; }
Latch(should, colsThis) == IF should = 0 THEN colsThis ELSE should

\* Array.isArray(obj)
IsArray(obj) == \A i \in 1..Len(obj) : obj[i].key.kind = "index"

\* Object.keys(obj)
ObjectKeys(obj) == [i \in 1..Len(obj) |-> obj[i].key]

\* isRowBlank as it would be with the array branch alone.
isRowBlankArrayOnly(record) ==
  IsArray(record) /\ Len(record) = 1 /\ Get(record, Index(0)) = Str(<<>>)

\* isRowBlank(rec)
isRowBlank(record) ==
  IF IsArray(record)
    THEN Len(record) = 1 /\ Get(record, Index(0)) = Str(<<>>)
    ELSE LET keys == ObjectKeys(record)
         IN Len(keys) = 1 /\ Get(record, keys[1]) = Str(<<>>)

\* const colsThis = namedColumnMode ? Object.keys(rec).length : rec.length
ColsThis(sch, record) ==
  IF namedColumnMode(sch) THEN Len(ObjectKeys(record)) ELSE Len(record)

\* colsThis !== colsShould
CountDiffers(colsThis, should) == colsThis # should

\* The forEach over the column definitions from the k-th on: each calls
\* checkCell(rec[key], colDef) and writes one line per message.  A call that
\* throws ends the loop and the handler with it.
RECURSIVE CellLoop(_, _, _, _, _)
CellLoop(defs, k, record, r, st) ==
  IF k > Len(defs) \/ st.threw THEN st
  ELSE LET key == defs[k].key
           cell == Get(record, key)
           res == checkCell(cell, defs[k].val)
           lines == [i \in 1..Len(res.msgs) |-> CellLine(r, key, res.msgs[i])]
       IN CellLoop(defs, k + 1, record, r,
                   [threw |-> res.threw,
                    lines |-> st.lines \o lines,
                    calls |-> Append(st.calls, [key |-> key, cell |-> cell])])

\* One iteration of the while loop of the 'readable' handler, up to its
\* continue, its end, or the exception that leaves it.
Iteration(sch, should, r, record) ==
  LET row1 == r + 1
      colsThis == ColsThis(sch, record)
      should1 == Latch(should, colsThis)
      idle == [threw |-> FALSE, lines |-> <<>>, calls |-> <<>>]
  IN IF IsSkipped(row1, sch)
       THEN [row |-> row1, colsShould |-> should, out |-> idle]
     ELSE IF isRowBlank(record)
       THEN [row |-> row1, colsShould |-> should1,
             out |-> [idle EXCEPT !.lines = <<BlankLine(row1)>>]]
     ELSE [row |-> row1, colsShould |-> should1,
           out |-> CellLoop(sch.columnDefs, 1, record, row1,
                            [idle EXCEPT !.lines =
                               IF CountDiffers(colsThis, should1)
                                 THEN <<CountLine(row1, should1, colsThis)>>
                                 ELSE <<>>])]

\* The events the parser has a listener for.
Listeners == {"end", "readable"}

\* What an 'error' event of the parser writes when a listener is there
\* (the message of the error).
ErrorLine ==
  [row |-> 0, col |-> NoKey, msg |-> "err.message", expected |-> 0, found |-> 0]

\* ------------------------------------------------------------------ inputs
SeqsUpTo(S, n) == UNION {[1..k -> S] : k \in 1..n}

\* The header line of the file in named mode, as the parser keeps it.
ColumnNames == <<"a", "b", "c", "d">>
Header == SubSeq(ColumnNames, 1, MaxFields)

\* The column definitions of the schemas.
DriverDefs ==
  {[NoRules EXCEPT !.isEmpty = TRUE],
   [NoRules EXCEPT !.noEmpty = TRUE],
   [NoRules EXCEPT !.isTrim = TRUE]}

\* A schema defines one or two columns.
DefCounts == {1, 2}

\* Sequences of distinct header names, the keys of columnDefs in named mode.
NameLists ==
  {s \in UNION {[1..k -> {Header[i] : i \in 1..Len(Header)}] : k \in DefCounts} :
     \A i, j \in 1..Len(s) : i # j => s[i] # s[j]}

DefLists == UNION {[1..k -> DriverDefs] : k \in DefCounts}

\* The cells of the records the parser delivers.
DriverCells == {Str(<<>>), Str(<<Ch.seven>>)}

\* A record of the parser: an array of one to MaxFields cells, or, in named
\* mode, an object holding a cell for each of the first header names (a
\* short line leaves the later names out).
Records(sch) ==
  IF namedColumnMode(sch)
    THEN {ObjectOf(Header, s) : s \in SeqsUpTo(DriverCells, MaxFields)}
    ELSE {ArrayOf(s) : s \in SeqsUpTo(DriverCells, MaxFields)}

\* schema.columnDefs: an array of definitions, or an object of definitions
\* under column names.
ColumnDefs ==
  {ArrayOf(s) : s \in DefLists}
    \cup {ObjectOf(p[1], p[2]) : p \in
            {q \in NameLists \X DefLists : Len(q[1]) = Len(q[2])}}

Schemas ==
  {[columns |-> c, skipRows |-> k, isArray |-> IsArray(d), columnDefs |-> d] :
     c \in 0..MaxFields, k \in 0..MaxSkip, d \in ColumnDefs}

\* ----------------------------------------------------------- state machine
EngineOff ==
  /\ evCell = Undefined
  /\ evDef = NoRules
  /\ evRes = Started
  /\ evPc = "off"

\* The state once the script has run down to instream.pipe(parser).
Init ==
  /\ schema \in Schemas
  /\ colsShould = InitialColsShould(schema)
  /\ row = InitialRow(schema)
  /\ pc = "reading"
  /\ delivered = 0
  /\ rec = <<>>
  /\ written = <<>>
  /\ calls = <<>>
  /\ EngineOff

\* parser.read() returns a record and the loop body handles it.
Readable ==
  /\ pc = "reading"
  /\ delivered < MaxRecords
  /\ \E record \in Records(schema) :
       \E it \in {Iteration(schema, colsShould, row, record)} :
          /\ rec' = record
          /\ row' = it.row
          /\ colsShould' = it.colsShould
          /\ written' = it.out.lines
          /\ calls' = it.out.calls
          /\ pc' = IF it.out.threw THEN "threw" ELSE pc
  /\ delivered' = delivered + 1
  /\ UNCHANGED <<schema, engineVars>>

\* The parser emits 'error' for a malformed line.  An 'error' event that
\* has no listener is thrown, and nothing catches it.
ParserError ==
  /\ pc = "reading"
  /\ IF "error" \in Listeners
       THEN /\ written' = <<ErrorLine>>
            /\ pc' = pc
       ELSE /\ written' = <<>>
            /\ pc' = "unhandledError"
  /\ rec' = <<>>
  /\ calls' = <<>>
  /\ UNCHANGED <<schema, colsShould, row, delivered, engineVars>>

\* The parser emits 'end': the input is exhausted.
End ==
  /\ pc = "reading"
  /\ pc' = "ended"
  /\ rec' = <<>>
  /\ written' = <<>>
  /\ calls' = <<>>
  /\ UNCHANGED <<schema, colsShould, row, delivered, engineVars>>

Next == Readable \/ ParserError \/ End

Spec == Init /\ [][Next]_vars

\* ------------------------------------------------ the rule engine, alone
EngineChars == {Ch.tab, Ch.sp, Ch.minus, Ch.dot, Ch.zero, Ch.seven, Ch.x, Ch.eacute}

EngineCells == {Str(<<>>)} \cup {Str(s) : s \in SeqsUpTo(EngineChars, MaxLen)}

EngineBounds == {Undefined, Num(5, 0), Str(<<Ch.seven>>)}

EngineDefs ==
  [isEmpty : BOOLEAN, noEmpty : BOOLEAN, isAscii : BOOLEAN, isTrim : BOOLEAN,
   regex : {NoRegex, Regex(TRUE, <<Ch.seven>>, FALSE)},
   isInt : BOOLEAN, isFloat : BOOLEAN,
   minVal : EngineBounds, maxVal : EngineBounds]

DriverOff ==
  /\ schema = [columns |-> 0, skipRows |-> 0, isArray |-> TRUE, columnDefs |-> <<>>]
  /\ colsShould = 0
  /\ row = 0
  /\ pc = "off"
  /\ delivered = 0
  /\ rec = <<>>
  /\ written = <<>>
  /\ calls = <<>>

InitEval ==
  /\ DriverOff
  /\ evCell \in EngineCells
  /\ evDef = NoRules
  /\ evRes = Started
  /\ evPc = "input"

\* One call checkCell(cell, colDef).
Evaluate ==
  /\ evPc = "input"
  /\ \E colDef \in EngineDefs :
       /\ evDef' = colDef
       /\ evRes' = checkCell(evCell, colDef)
  /\ evPc' = "returned"
  /\ UNCHANGED <<evCell, driverVars>>

NextEval == Evaluate

SpecEval == InitEval /\ [][NextEval]_vars

\* ================================================================== claims
\* The latest event delivered a record.
Delivered == rec # <<>>

\* The record has exactly one field and it is the empty string.
BlankRecord(record) == Len(record) = 1 /\ record[1].val = Str(<<>>)

\* The latest record was not skipped (row is its row number).
NotSkipped == Delivered /\ row > schema.skipRows

\* The messages of the lines written for the column under key.
MsgsOfColumn(key) ==
  LET OfColumn(l) == l.col = ColLabel(key)
      ls == SelectSeq(written, OfColumn)
  IN [i \in 1..Len(ls) |-> ls[i].msg]

\* The column-count lines among the lines written.
CountLines ==
  LET IsCount(l) == l.msg = "inconsistent column count"
  IN SelectSeq(written, IsCount)

\* C1: the driver never aborts because of the content of a record: every
\* record delivered is handled to the end of the loop body and counted.
C1_NeverAbortsOnData ==
  /\ pc # "threw"
  /\ row = (IF schema.isArray THEN 0 ELSE 1) + delivered

\* C2: a column whose cell is absent from the record gets exactly the
\* diagnostics that the rule engine yields for the empty string.
C2_AbsentCellAsEmpty ==
  \A k \in 1..Len(calls) :
    calls[k].cell = Undefined =>
      MsgsOfColumn(calls[k].key) = checkCell(Str(<<>>), schema.columnDefs[k].val).msgs

\* C3: a non-skipped blank record gets exactly one line, "is a blank line",
\* and neither a column-count line nor a cell line.
C3_BlankLineAlone ==
  (NotSkipped /\ BlankRecord(rec)) =>
    /\ written = <<BlankLine(row)>>
    /\ calls = <<>>
    /\ pc = "reading"

C3_Witness ==
  /\ NotSkipped
  /\ BlankRecord(rec)
  /\ colsShould = 2
  /\ ~schema.isArray
  /\ written = <<BlankLine(row)>>

C5_RowCounts ==
  /\ row = (IF schema.isArray THEN 0 ELSE 1) + delivered
  /\ \A i \in 1..Len(written) :
       written[i].row = (IF schema.isArray THEN delivered ELSE delivered + 1)

C5_Witness ==
  /\ ~schema.isArray
  /\ delivered = 3
  /\ row = 4
  /\ Len(written) >= 2
  /\ BlankRecord(rec) = FALSE

\* C6: a non-skipped, non-blank record gets one column-count line exactly
\* when its field count differs from the expected count, that line comes
\* first, and the rule engine is called once for every column definition.
C6_CountLineAndAllColumns ==
  (NotSkipped /\ ~BlankRecord(rec)) =>
    /\ CountLines = (IF Len(rec) # colsShould
                       THEN <<CountLine(row, colsShould, Len(rec))>>
                       ELSE <<>>)
    /\ Len(rec) # colsShould => written[1] = CountLine(row, colsShould, Len(rec))
    /\ [k \in 1..Len(calls) |-> calls[k].key] = ObjectKeys(schema.columnDefs)

\* C7: a record whose row number is at most skipRows writes nothing, calls
\* no check and leaves the expected column count as the schema gave it.
C7_SkippedRowsSilent ==
  (Delivered /\ row <= schema.skipRows) =>
    /\ written = <<>>
    /\ calls = <<>>
    /\ colsShould = schema.columns
    /\ pc = "reading"

C7_Witness ==
  /\ Delivered
  /\ ~schema.isArray
  /\ row = 2
  /\ schema.skipRows = 2
  /\ schema.columns = 0
  /\ colsShould = 0
  /\ BlankRecord(rec)

\* C8: a parse error of the record source is written to the output and the
\* run goes on reading.
C8_ParseErrorReported ==
  [][ParserError => (written' # <<>> /\ pc' = "reading")]_vars

\* The column definition with only the fields of one check kept.
OnlyEmptiness(d) == [NoRules EXCEPT !.isEmpty = d.isEmpty, !.noEmpty = d.noEmpty]
OnlyAscii(d) == [NoRules EXCEPT !.isAscii = d.isAscii]
OnlyTrim(d) == [NoRules EXCEPT !.isTrim = d.isTrim]
OnlyRegex(d) == [NoRules EXCEPT !.regex = d.regex]
OnlyInt(d) == [NoRules EXCEPT !.isInt = d.isInt]
OnlyFloat(d) == [NoRules EXCEPT !.isFloat = d.isFloat]
OnlyMin(d) == [NoRules EXCEPT !.minVal = d.minVal]
OnlyMax(d) == [NoRules EXCEPT !.maxVal = d.maxVal]

\* What each check yields for the cell on its own, in the order of the
\* checks.
OwnOutcomes(cell, d) ==
  <<checkCell(cell, OnlyEmptiness(d)).msgs,
    checkCell(cell, OnlyAscii(d)).msgs,
    checkCell(cell, OnlyTrim(d)).msgs,
    checkCell(cell, OnlyRegex(d)).msgs,
    checkCell(cell, OnlyInt(d)).msgs,
    checkCell(cell, OnlyFloat(d)).msgs,
    checkCell(cell, OnlyMin(d)).msgs,
    checkCell(cell, OnlyMax(d)).msgs>>

RECURSIVE Concat(_)
Concat(ss) == IF ss = <<>> THEN <<>> ELSE Head(ss) \o Concat(Tail(ss))

\* C9: for a string cell, checkCell returns the concatenation, in the order
\* emptiness, ASCII, trim, pattern, integer, float, min, max, of what each
\* check yields on its own; each yields at most one message; and with both
\* isEmpty and noEmpty set the emptiness check is that of isEmpty alone.
C9_IndependentChecksInOrder ==
  evPc = "returned" =>
    LET own == OwnOutcomes(evCell, evDef)
    IN /\ ~evRes.threw
       /\ evRes.msgs = Concat(own)
       /\ \A k \in 1..Len(own) : Len(own[k]) <= 1
       /\ (evDef.isEmpty /\ evDef.noEmpty) =>
            own[1] = checkCell(evCell, [NoRules EXCEPT !.isEmpty = TRUE]).msgs

C9_Witness ==
  /\ evPc = "returned"
  /\ evDef.isEmpty /\ evDef.noEmpty
  /\ Len(evRes.msgs) = 8

IsDecDigit(c) == c >= 48 /\ c <= 57

IsHexDigit(c) == IsDecDigit(c) \/ (c >= 97 /\ c <= 102) \/ (c >= 65 /\ c <= 70)

DropSign(s) == IF s # <<>> /\ Head(s) \in {Ch.plus, Ch.minus} THEN Tail(s) ELSE s

\* The text begins with an optionally-signed sequence of one or more digits.
BeginsWithSignedDigits(s) ==
  LET u == DropSign(s) IN u # <<>> /\ IsDecDigit(u[1])

\* C10 as stated: with isInt set, no "is not a finite integer" message if
\* and only if the cell begins with an optionally-signed sequence of digits.
C10_Original ==
  (evPc = "returned" /\ evDef.isInt) =>
    ((\A i \in 1..Len(evRes.msgs) : evRes.msgs[i] # Msg.int)
       <=> BeginsWithSignedDigits(evCell.s))

\* After leading white space and an optional sign, the text begins with
\* 0x or 0X and a hexadecimal digit, or with a decimal digit that does not
\* open a 0x or 0X prefix.
BeginsWithInteger(s) ==
  LET u == DropSign(TrimStart(s))
      prefixed == Len(u) >= 2 /\ u[1] = Ch.zero /\ u[2] \in {Ch.x, Ch.X}
  IN IF prefixed THEN Len(u) >= 3 /\ IsHexDigit(u[3])
     ELSE u # <<>> /\ IsDecDigit(u[1])

\* C10 amended: with isInt set, no "is not a finite integer" message if and
\* only if the cell, after its leading white space, begins with an optional
\* sign and then decimal digits, or 0x/0X and hexadecimal digits.
C10_LeadingInteger ==
  (evPc = "returned" /\ evDef.isInt) =>
    ((\A i \in 1..Len(evRes.msgs) : evRes.msgs[i] # Msg.int)
       <=> BeginsWithInteger(evCell.s))

C10_Witness ==
  /\ evPc = "returned"
  /\ evDef.isInt
  /\ evCell = Str(<<Ch.sp, Ch.seven>>)
  /\ evRes.msgs = <<>>
=============================================================================
